---- MODULE Spec2Model ----
(***************************************************************************)
(* The multi-provider analysis orchestration of services/geminiService.ts: *)
(* runAnalysis, its task list and onProgress snapshots, and the four       *)
(* provider adapter chains (raw completion -> structured extraction ->     *)
(* auxiliary questions).  JavaScript runs one handler at a time, so every  *)
(* action below is one synchronous stretch of code between suspension      *)
(* points (an await on a network request).                                 *)
(***************************************************************************)
EXTENDS Integers, Sequences, FiniteSets, TLC

\* ------------------------------------------------------------------ bounds
\* largest number of prompts of a configuration
MaxPrompts == 2
\* largest number of selected providers
MaxProviders == 2
\* largest number of auxiliary questions
MaxQuestions == 2
\* largest number of provider requests of a run: 2 + the number of auxiliary
\* questions for each (prompt, provider) pair
MaxRequests == 16
\* largest number of provider requests of a run whose providers reply with
\* arbitrary content
MaxArbitraryRequests == 4
\* largest number of provider requests of a run that is repeated for comparison
MaxRepeatedRequests == 12
\* largest number of provider requests of a run checked for termination
MaxFairRequests == 12
\* largest number of provider requests of a run one of whose requests hangs
MaxHungRequests == 8
\* largest length of a prompt whose task description is built
MaxPromptLength == 42

\* ------------------------------------------------------------- JS values
\* an absent optional string (Task.error, ProviderResponse.error)
Undefined == "<undefined>"

\* JavaScript truthiness of an optional string: `if (error)`, `if (response.error)`
Truthy(s) == s # Undefined /\ s # ""

\* a parsed JSON value bound to brandAnalyses: a list, a non-list object, or undefined
JsList(items) == [t |-> "list", v |-> items]
JsObject == [t |-> "object", v |-> <<>>]
JsUndefined == [t |-> "undefined", v |-> <<>>]

\* ------------------------------------------------------------------ types
Provider == <<"gemini", "openai", "perplexity", "copilot">>

ProviderNames == {Provider[i] : i \in 1..Len(Provider)}

providerBaseNames ==
    [gemini |-> "Google Gemini", openai |-> "OpenAI",
     perplexity |-> "Perplexity", copilot |-> "Copilot / Azure"]

\* the fields of ApiKeys
ApiKeyNames == {"gemini", "openai", "perplexity", "copilotKey", "copilotEndpoint"}

\* the ApiKeys fields a provider's client bundle is built from
KeysOf(provider) ==
    IF provider = "copilot" THEN {"copilotKey", "copilotEndpoint"} ELSE {provider}

\* ------------------------------------------------------- configurations
Range(s) == {s[i] : i \in 1..Len(s)}

\* lists of distinct providers, in selection order: the runs of the
\* enumeration taken cyclically, so that every provider comes first and last
ProviderLists ==
    {[i \in 1..n |-> Provider[((r + i - 1) % Len(Provider)) + 1]] :
        r \in 0..(Len(Provider) - 1),
        n \in {m \in 1..MaxProviders : m <= Len(Provider)}}

\* prompts are strings, kept as sequences of characters
PromptTexts(n) == [i \in 1..n |-> <<"p", i>>]

QuestionTexts(k) == [q \in 1..k |-> <<"q", q>>]

\* a configuration with at most one credential or model identifier missing
Configs ==
    {[providers |-> provs,
      apiKeys |-> (UNION {KeysOf(p) : p \in Range(provs)}) \ missKey,
      models |-> Range(provs) \ missModel,
      prompts |-> PromptTexts(n),
      additionalQuestions |-> QuestionTexts(k)] :
        provs \in ProviderLists, n \in 1..MaxPrompts, k \in 0..MaxQuestions,
        missKey \in {{}} \cup {{x} : x \in ApiKeyNames},
        missModel \in {{}} \cup {{p} : p \in ProviderNames}}

ValidConfigs ==
    {c \in Configs :
        /\ Len(c.prompts) * Len(c.providers) * (2 + Len(c.additionalQuestions))
                <= MaxRequests
        /\ Cardinality(UNION {KeysOf(p) : p \in Range(c.providers)}
                       \ c.apiKeys)
           + Cardinality(Range(c.providers) \ c.models) <= 1}

\* every selected provider has its credentials and its model identifier
FullyConfigured(c) ==
    \A p \in Range(c.providers) : KeysOf(p) \subseteq c.apiKeys /\ p \in c.models

\* what the providers of a run reply: as the adapters instruct them to (or
\* with an error), or with any content
Behaviours == {"instructed", "arbitrary"}

VARIABLES
    config,           \* the AppConfig runAnalysis was called with
    behaviour,        \* what the providers reply with in this run
    pc,               \* where runAnalysis is: idle, dispatch, await, returned, rejected
    rejection,        \* the error runAnalysis rejected with
    pIndex,           \* the prompt the for-loop is at (0-based)
    dj,               \* the next provider the map callback is invoked for (1-based)
    tasks,            \* the tasks array
    emitted,          \* the last snapshot handed to onProgress
    emitCount,        \* number of onProgress calls
    snapshot,         \* the array last handed to onProgress: [...tasks], the
                      \* references to the task objects, by position
    caught,           \* number of times the catch block of the map callback ran
    chain,            \* per provider: the adapter chain of the current prompt
    promises,         \* per provider: providerPromises[j] of the current prompt
    inflight,         \* outstanding network requests
    issued,           \* number of network requests issued so far
    resultsByPrompt,  \* the result list
    settleOrder,      \* history: the providers of the last dispatched prompt, in
                      \* the order in which their promises settled
    run,              \* 0: a single run; 1, 2: the first and the second of two
                      \* runs over the same configuration
    seen,             \* history of run 1: what each provider request settled with
    prevResults,      \* the result list run 1 returned
    flipped,          \* the (prompt, provider) whose call failed in run 1 and
                      \* succeeds in run 2
    hung              \* the provider request that never settles, if any

vars == <<config, behaviour, pc, rejection, pIndex, dj, tasks, emitted, emitCount,
          snapshot, caught, chain, promises, inflight, issued, resultsByPrompt,
          settleOrder, run, seen, prevResults, flipped, hung>>

N == Len(config.providers)
P == Len(config.prompts)
K == Len(config.additionalQuestions)


\* ---------------------------------------------------------------- clients
\* initializeClients: the providers whose client bundle is non-empty, or the
\* error it throws (only a selected gemini without its key throws)
initializeClientsThrows(cfg) ==
    "gemini" \in Range(cfg.providers) /\ "gemini" \notin cfg.apiKeys

\* faulty variant: the perplexity key is never bound
initializeClients_NoPerplexity(cfg) ==
    {p \in Range(cfg.providers) : KeysOf(p) \subseteq cfg.apiKeys /\ p # "perplexity"}

initializeClients(cfg) ==
    {p \in Range(cfg.providers) : KeysOf(p) \subseteq cfg.apiKeys}

clients == initializeClients(config)

\* the guard of each case of the switch: client bundle and model identifier
ClientReady(provider) == provider \in clients /\ provider \in config.models

NotInitializedMessage(provider) ==
    CASE provider = "gemini" -> "Gemini client not initialized properly."
      [] provider = "openai" -> "OpenAI client not initialized properly."
      [] provider = "perplexity" -> "Perplexity client not initialized properly."
      [] OTHER -> "Copilot client not initialized properly."

\* ------------------------------------------------------------------ tasks
\* faulty variant: the id leaves the provider out
TaskId_NoProvider(i, provider) == <<"prompt", i>>

\* `prompt-${pIndex}-${provider}`
TaskId(i, provider) == <<"prompt", i, provider>>

Ellipsis == <<".", ".", ".">>

\* faulty variant: a prompt of exactly 40 characters is cut as well
ShortPrompt_CutsAtForty(prompt) ==
    IF Len(prompt) >= 40 THEN SubSeq(prompt, 1, 40) \o Ellipsis ELSE prompt

\* prompt.length > 40 ? prompt.substring(0, 40) + '...' : prompt
ShortPrompt(prompt) ==
    IF Len(prompt) > 40 THEN SubSeq(prompt, 1, 40) \o Ellipsis ELSE prompt

ModelName(cfg, provider) ==
    IF provider \in cfg.models THEN <<"model", provider>> ELSE <<"default">>

\* faulty variant: a task is created already started
NewTask_Started(cfg, i, provider) ==
    [id |-> TaskId(i, provider),
     description |-> <<ShortPrompt(cfg.prompts[i + 1]), providerBaseNames[provider],
                       ModelName(cfg, provider)>>,
     status |-> "in_progress",
     error |-> Undefined]

NewTask(cfg, i, provider) ==
    [id |-> TaskId(i, provider),
     description |-> <<ShortPrompt(cfg.prompts[i + 1]), providerBaseNames[provider],
                       ModelName(cfg, provider)>>,
     status |-> "pending",
     error |-> Undefined]

\* faulty variant: one task per prompt instead of one per (prompt, provider) pair
InitialTasks_OnePerPrompt(cfg) ==
    [t \in 1..Len(cfg.prompts) |-> NewTask(cfg, t - 1, cfg.providers[1])]

\* the nested forEach: prompt-major, provider-minor
InitialTasks(cfg) ==
    [t \in 1..(Len(cfg.prompts) * Len(cfg.providers)) |->
        NewTask(cfg, (t - 1) \div Len(cfg.providers),
                cfg.providers[((t - 1) % Len(cfg.providers)) + 1])]

\* tasks.findIndex(t => t.id === taskId); 0 stands for -1
FindIndex(ts, taskId) ==
    IF \E i \in 1..Len(ts) : ts[i].id = taskId
    THEN CHOOSE i \in 1..Len(ts) :
            /\ ts[i].id = taskId
            /\ \A h \in 1..(i - 1) : ts[h].id # taskId
    ELSE 0

\* faulty variant: the update rewrites the task's description as well
SetStatus_TouchesDescription(ts, taskId, status, error) ==
    LET i == FindIndex(ts, taskId) IN
    IF i = 0 THEN ts
    ELSE [ts EXCEPT ![i] = [@ EXCEPT !.status = status,
                                     !.description = <<status>>,
                                     !.error = IF Truthy(error) THEN error ELSE @]]

\* the task list after updateTaskStatus(taskId, status, error)
SetStatus(ts, taskId, status, error) ==
    LET i == FindIndex(ts, taskId) IN
    IF i = 0 THEN ts
    ELSE [ts EXCEPT ![i] = [@ EXCEPT !.status = status,
                                     !.error = IF Truthy(error) THEN error ELSE @]]

\* [...tasks]: a new array holding the same task objects; a task object is
\* named by its position in tasks, which never changes
ArrayCopy(ts) == [t \in 1..Len(ts) |-> t]

\* faulty variant: the observer is handed the changed task only
updateTaskStatus_ChangedOnly(taskId, status, error) ==
    /\ tasks' = SetStatus(tasks, taskId, status, error)
    /\ IF FindIndex(tasks, taskId) # 0
       THEN /\ emitted' = <<tasks'[FindIndex(tasks, taskId)]>>
            /\ snapshot' = <<FindIndex(tasks, taskId)>>
            /\ emitCount' = emitCount + 1
       ELSE UNCHANGED <<emitted, emitCount, snapshot>>

\* updateTaskStatus: the status change and the onProgress([...tasks]) call
updateTaskStatus(taskId, status, error) ==
    /\ tasks' = SetStatus(tasks, taskId, status, error)
    /\ IF FindIndex(tasks, taskId) # 0
       THEN /\ emitted' = tasks'
            /\ snapshot' = ArrayCopy(tasks')
            /\ emitCount' = emitCount + 1
       ELSE UNCHANGED <<emitted, emitCount, snapshot>>

\* ------------------------------------------------------------- observer
\* faulty variant: failed tasks are not counted
completedCount_OnlyCompleted(ts) ==
    Cardinality({t \in 1..Len(ts) : ts[t].status = "completed"})

\* LoadingStatus: tasks.filter(t => t.status === 'completed' ||
\* t.status === 'error').length
completedCount(ts) ==
    Cardinality({t \in 1..Len(ts) : ts[t].status = "completed" \/ ts[t].status = "error"})

\* -------------------------------------------------------------- responses
NoResponse ==
    [provider |-> "", response |-> "", brandAnalyses |-> JsUndefined,
     additionalAnswers |-> <<>>, error |-> Undefined]

\* faulty variant: the error object leaves brandAnalyses unset
ErrorResponse_NoBrandList(provider, message) ==
    [provider |-> provider, response |-> "", brandAnalyses |-> JsUndefined,
     additionalAnswers |-> <<>>, error |-> message]

\* the object of an adapter's catch block, and of runAnalysis's catch block
ErrorResponse(provider, message) ==
    [provider |-> provider, response |-> "", brandAnalyses |-> JsList(<<>>),
     additionalAnswers |-> <<>>, error |-> message]

\* the object an adapter returns at the end of its try block
SuccessResponse(provider, response, brandAnalyses, additionalAnswers) ==
    [provider |-> provider, response |-> response, brandAnalyses |-> brandAnalyses,
     additionalAnswers |-> additionalAnswers, error |-> Undefined]

NoReply == [fenced |-> FALSE, json |-> "none", items |-> <<>>]

\* the locals of one adapter invocation: the stage it awaits, the raw text,
\* the extraction reply, the parsed brand analyses and the answers so far;
\* and its history: whether the answers so far arrived in question order,
\* the number of requests it issued, the stage it ended in
IdleChain == [stage |-> "idle", response |-> "", reply |-> NoReply,
              brandAnalyses |-> JsUndefined, answers |-> <<>>,
              inOrder |-> TRUE, requests |-> 0, endedAt |-> "none"]

NoPromise == [state |-> "none", value |-> NoResponse, reason |-> Undefined]

Request(i, provider, kind, q) == [pIndex |-> i, provider |-> provider, kind |-> kind, q |-> q]

\* no request hangs
NotHung == Request(-1, "", "none", 0)

\* the requests a run over cfg can issue
AllRequests(cfg) ==
    {Request(i, cfg.providers[j], "raw", 0) :
        i \in 0..(Len(cfg.prompts) - 1), j \in 1..Len(cfg.providers)}
    \cup {Request(i, cfg.providers[j], "extract", 0) :
        i \in 0..(Len(cfg.prompts) - 1), j \in 1..Len(cfg.providers)}
    \cup UNION {{Request(i, cfg.providers[j], "aux", q) :
                    i \in 0..(Len(cfg.prompts) - 1), j \in 1..Len(cfg.providers)} :
                q \in 1..Len(cfg.additionalQuestions)}

\* faulty variant: only the first question is asked
AuxRequests_OnlyFirst(i, provider) == {Request(i, provider, "aux", 1)}

\* additionalQuestions.map(async (question) => ...): one request per
\* question, all issued before the first await of Promise.all
AuxRequests(i, provider) == {Request(i, provider, "aux", q) : q \in 1..K}


\* ------------------------------------------------------- provider replies
\* the text of a successful raw completion
RawTexts == IF behaviour = "arbitrary" THEN {"", "text"} ELSE {"text"}

\* the messages of the errors a provider request can throw: the fetch helpers
\* build a non-empty message; the Gemini SDK's errors are whatever it throws
ThrownMessages(provider) ==
    IF provider = "gemini" /\ behaviour = "arbitrary"
    THEN {"API Error", ""} ELSE {"API Error"}

SyntaxErrorMessage == "SyntaxError"

SomeBrands == <<[brandName |-> "Acme", mentions |-> 1, sentiment |-> "Positive"]>>

\* the content of a structured-extraction reply: the JSON text it carries
\* (a top-level array, an object with or without a brands key, or no JSON),
\* either as the whole content or inside a ```json fenced block; only an
\* array or a brands key has items
AnyReply ==
    {r \in [fenced : BOOLEAN,
            json : {"array", "brands", "nobrands", "malformed"},
            items : {<<>>, SomeBrands}] :
        r.json \in {"nobrands", "malformed"} => r.items = <<>>}

\* the reply each adapter's analysisPrompt (and response schema) asks for
InstructedReply(provider) ==
    [fenced |-> provider = "perplexity",
     json |-> IF provider = "gemini" THEN "array" ELSE "brands",
     items |-> SomeBrands]

ExtractReplies(provider) ==
    IF behaviour = "arbitrary" THEN AnyReply ELSE {InstructedReply(provider)}

\* JSON.parse of a text: the value, or a SyntaxError
JsonParse(json, items) ==
    CASE json = "array" -> [ok |-> TRUE, value |-> JsList(items), brands |-> JsUndefined]
      [] json = "brands" -> [ok |-> TRUE, value |-> JsObject, brands |-> JsList(items)]
      [] json = "nobrands" -> [ok |-> TRUE, value |-> JsObject, brands |-> JsUndefined]
      [] OTHER -> [ok |-> FALSE, value |-> JsUndefined, brands |-> JsUndefined]

Thrown(message) == [ok |-> FALSE, value |-> JsUndefined, message |-> message]
Parsed(value) == [ok |-> TRUE, value |-> value, message |-> Undefined]

\* x || []  for a list or undefined x
OrEmptyList(x) == IF x.t = "undefined" THEN JsList(<<>>) ELSE x

\* gemini: JSON.parse(analysisResult.text)
GeminiBrandAnalyses(reply) ==
    LET r == JsonParse(reply.json, reply.items) IN
    IF reply.fenced \/ ~r.ok THEN Thrown(SyntaxErrorMessage) ELSE Parsed(r.value)

\* openai: JSON.parse(content).brands || []
OpenAIBrandAnalyses(reply) ==
    LET r == JsonParse(reply.json, reply.items) IN
    IF reply.fenced \/ ~r.ok THEN Thrown(SyntaxErrorMessage)
    ELSE Parsed(OrEmptyList(r.brands))

\* perplexity: jsonMatch ? JSON.parse(jsonMatch[1]).brands : []
PerplexityBrandAnalyses(reply) ==
    LET r == JsonParse(reply.json, reply.items) IN
    IF ~reply.fenced THEN Parsed(JsList(<<>>))
    ELSE IF ~r.ok THEN Thrown(SyntaxErrorMessage)
    ELSE Parsed(r.brands)

\* copilot: JSON.parse(content).brands || []
CopilotBrandAnalyses(reply) ==
    LET r == JsonParse(reply.json, reply.items) IN
    IF reply.fenced \/ ~r.ok THEN Thrown(SyntaxErrorMessage)
    ELSE Parsed(OrEmptyList(r.brands))

BrandAnalysesOf(provider, reply) ==
    CASE provider = "gemini" -> GeminiBrandAnalyses(reply)
      [] provider = "openai" -> OpenAIBrandAnalyses(reply)
      [] provider = "perplexity" -> PerplexityBrandAnalyses(reply)
      [] OTHER -> CopilotBrandAnalyses(reply)

AnswerTexts == {"answer"}


\* what a provider request can settle with
Failed(message) == [ok |-> FALSE, content |-> "", message |-> message]

RawOutcomes(provider) ==
    {[ok |-> TRUE, content |-> t, message |-> Undefined] : t \in RawTexts}
    \cup {Failed(m) : m \in ThrownMessages(provider)}

ExtractOutcomes(provider) ==
    {[ok |-> TRUE, content |-> r, message |-> Undefined] : r \in ExtractReplies(provider)}
    \cup {Failed(m) : m \in ThrownMessages(provider)}

AuxOutcomes(provider) ==
    {[ok |-> TRUE, content |-> a, message |-> Undefined] : a \in AnswerTexts}
    \cup {Failed(m) : m \in ThrownMessages(provider)}

\* ------------------------------------------------------------------- Init
\* the state in which runAnalysis is called
Fresh ==
    /\ pc = "idle"
    /\ rejection = Undefined
    /\ pIndex = 0
    /\ dj = 1
    /\ tasks = <<>>
    /\ emitted = <<>>
    /\ emitCount = 0
    /\ snapshot = <<>>
    /\ caught = 0
    /\ chain = [j \in 1..N |-> IdleChain]
    /\ promises = [j \in 1..N |-> NoPromise]
    /\ inflight = {}
    /\ issued = 0
    /\ resultsByPrompt = <<>>
    /\ settleOrder = <<>>

Init ==
    /\ config \in ValidConfigs
    /\ behaviour \in Behaviours
    /\ behaviour = "arbitrary" =>
            Len(config.prompts) * Len(config.providers)
                * (2 + Len(config.additionalQuestions)) <= MaxArbitraryRequests
    /\ Fresh
    /\ run = 0
    /\ seen = {}
    /\ prevResults = <<>>
    /\ flipped = <<>>
    /\ hung = NotHung

\* ------------------------------------------------------------ runAnalysis
\* the call of runAnalysis up to the for-loop: initializeClients, the task
\* list and the first onProgress
StartRun ==
    /\ pc = "idle"
    /\ IF initializeClientsThrows(config)
       THEN /\ pc' = "rejected"
            /\ rejection' = "Google Gemini API Key is missing."
            /\ UNCHANGED <<tasks, emitted, emitCount, snapshot>>
       ELSE /\ tasks' = InitialTasks(config)
            /\ emitted' = tasks'
            /\ snapshot' = ArrayCopy(tasks')
            /\ emitCount' = emitCount + 1
            /\ pc' = IF P = 0 THEN "returned" ELSE "dispatch"
            /\ UNCHANGED rejection
    /\ UNCHANGED <<config, hung, behaviour, pIndex, dj, chain, promises, inflight, issued,
                   resultsByPrompt, settleOrder, caught, run, seen, prevResults, flipped>>

\* one invocation of the map callback, up to its first await: the task goes
\* in_progress, the switch binds the adapter or throws, and the adapter
\* issues its raw completion request
Dispatch ==
    /\ pc = "dispatch"
    /\ dj <= N
    /\ LET provider == config.providers[dj] IN
       /\ updateTaskStatus(TaskId(pIndex, provider), "in_progress", Undefined)
       /\ IF ClientReady(provider)
          THEN /\ chain' = [chain EXCEPT ![dj] = [IdleChain EXCEPT !.stage = "raw",
                                                                 !.requests = 1]]
               /\ promises' = [promises EXCEPT ![dj] =
                                  [NoPromise EXCEPT !.state = "pending"]]
               /\ inflight' = inflight \cup {Request(pIndex, provider, "raw", 0)}
               /\ issued' = issued + 1
          ELSE /\ promises' = [promises EXCEPT ![dj] =
                                  [NoPromise EXCEPT !.state = "rejected",
                                                    !.reason = NotInitializedMessage(provider)]]
               /\ UNCHANGED <<chain, inflight, issued>>
    /\ dj' = dj + 1
    /\ settleOrder' = IF dj = 1 THEN <<>> ELSE settleOrder
    /\ UNCHANGED <<config, hung, behaviour, pc, rejection, pIndex, resultsByPrompt, caught,
                   run, seen, prevResults, flipped>>

MapDone == pc = "dispatch" /\ dj > N

\* await Promise.all(providerPromises) with a rejected promise in the list:
\* runAnalysis rejects with the first rejection
PromiseAllRejects ==
    /\ MapDone \/ pc = "await"
    /\ \E j \in 1..N :
        /\ promises[j].state = "rejected"
        /\ \A h \in 1..(j - 1) : promises[h].state # "rejected"
        /\ rejection' = promises[j].reason
    /\ pc' = "rejected"
    /\ UNCHANGED <<config, hung, behaviour, pIndex, dj, tasks, emitted, emitCount, snapshot, chain, promises,
                   inflight, issued, resultsByPrompt, settleOrder, caught,
                   run, seen, prevResults, flipped>>

\* await Promise.all(providerPromises): runAnalysis suspends
AwaitPromiseAll ==
    /\ MapDone
    /\ \A j \in 1..N : promises[j].state # "rejected"
    /\ pc' = "await"
    /\ UNCHANGED <<config, hung, behaviour, rejection, pIndex, dj, tasks, emitted, emitCount, snapshot, chain,
                   promises, inflight, issued, resultsByPrompt, settleOrder, caught,
                   run, seen, prevResults, flipped>>

\* faulty variant: the loop goes on as soon as one provider has settled
AllFulfilled_Any(ps) == \E j \in 1..Len(ps) : ps[j].state = "fulfilled"

\* faulty variant: Promise.all never resolves
AllFulfilled_Never(ps) == FALSE

\* Promise.all resolves once every promise of the list is fulfilled
AllFulfilled(ps) == \A j \in 1..Len(ps) : ps[j].state = "fulfilled"

\* faulty variant: one failed provider fails the whole prompt
PromiseAllValue_FailAll(ps) ==
    [j \in 1..Len(ps) |->
        IF \E h \in 1..Len(ps) : ps[h].value.error # Undefined
        THEN [provider |-> ps[j].value.provider, response |-> "",
              brandAnalyses |-> JsList(<<>>), additionalAnswers |-> <<>>,
              error |-> "aborted"]
        ELSE ps[j].value]

\* faulty variant: the responses are collected in the order in which they arrive
PromiseAllValue_SettleOrder(ps) ==
    [j \in 1..Len(ps) |->
        IF j <= Len(settleOrder) THEN ps[settleOrder[j]].value ELSE ps[j].value]

\* the value of Promise.all: the promises' values by position
PromiseAllValue(ps) == [j \in 1..Len(ps) |-> ps[j].value]

\* Promise.all resolved: the prompt's result is pushed and the loop goes on
\* to the next prompt, or runAnalysis returns
RecordResult ==
    /\ pc = "await"
    /\ AllFulfilled(promises)
    /\ resultsByPrompt' = Append(resultsByPrompt,
            [prompt |-> config.prompts[pIndex + 1],
             providerResponses |-> PromiseAllValue(promises)])
    /\ pIndex' = pIndex + 1
    /\ pc' = IF pIndex + 1 < P THEN "dispatch" ELSE "returned"
    /\ dj' = 1
    /\ chain' = [j \in 1..N |-> IdleChain]
    /\ promises' = [j \in 1..N |-> NoPromise]
    /\ UNCHANGED <<config, hung, behaviour, rejection, tasks, emitted, emitCount, snapshot, inflight, issued,
                   settleOrder, caught, run, seen, prevResults, flipped>>


\* ----------------------------------------------------------- adapter chain
\* faulty variant: a network event is delivered at any time
JsIdle_Always == TRUE

\* the event loop delivers a network event only when no synchronous code and
\* no promise continuation is left to run
JsIdle ==
    \/ pc \in {"rejected", "returned"}
    \/ /\ pc = "await"
       /\ ~AllFulfilled(promises)
       /\ \A j \in 1..N : promises[j].state # "rejected"

ProviderIndex(provider) ==
    CHOOSE j \in 1..N : config.providers[j] = provider

\* the request belongs to an adapter chain that is still awaiting it
Live(req) ==
    /\ req.pIndex = pIndex
    /\ req.pIndex < P
    /\ chain[ProviderIndex(req.provider)].stage = req.kind

Returned(value) == [threw |-> FALSE, value |-> value, message |-> Undefined]
Threw(message) == [threw |-> TRUE, value |-> NoResponse, message |-> message]

\* faulty variant: the adapter lets the failure out
AdapterCatch_Rethrows(provider, message) == Threw(message)

\* faulty variant: the catch block keeps the raw text it already has
AdapterCatch_KeepsRawText(provider, message) ==
    Returned([ErrorResponse(provider, message) EXCEPT
                 !.response = chain[ProviderIndex(provider)].response])

\* the adapter's catch block: every failure inside its try becomes a returned
\* error-shaped ProviderResponse
AdapterCatch(provider, message) == Returned(ErrorResponse(provider, message))

\* `await providerFunction()` settles in the map callback: the task is
\* updated and the callback's promise is fulfilled with the response
ProviderSettled(req, locals, result) ==
    LET j == ProviderIndex(req.provider)
        taskId == TaskId(req.pIndex, req.provider)
        response == IF result.threw
                    THEN ErrorResponse(req.provider, result.message)
                    ELSE result.value
    IN  /\ IF result.threw
           THEN updateTaskStatus(taskId, "error", result.message)
           ELSE IF Truthy(result.value.error)
                THEN updateTaskStatus(taskId, "error", result.value.error)
                ELSE updateTaskStatus(taskId, "completed", Undefined)
        /\ promises' = [promises EXCEPT ![j] =
                           [NoPromise EXCEPT !.state = "fulfilled", !.value = response]]
        /\ chain' = [chain EXCEPT ![j] = [locals EXCEPT !.stage = "returned",
                                                        !.endedAt = req.kind]]
        /\ settleOrder' = Append(settleOrder, j)
        /\ caught' = IF result.threw THEN caught + 1 ELSE caught

\* the adapter goes on to its next stage
ChainContinues(req, next) ==
    /\ chain' = [chain EXCEPT ![ProviderIndex(req.provider)] = next]
    /\ UNCHANGED <<tasks, emitted, emitCount, snapshot, promises, settleOrder, caught>>

\* a request nobody awaits any more settles
Ignored == UNCHANGED <<tasks, emitted, emitCount, snapshot, promises, chain, settleOrder, caught>>

\* the answer to question q arrives before the answer to any later question
InOrder(locals, q) ==
    /\ locals.inOrder
    /\ \A later \in (q + 1)..Len(locals.answers) : locals.answers[later] = Undefined

\* faulty variant: the answers are paired with the questions back to front
AdditionalAnswers_Reversed(answers) ==
    [q \in 1..Len(answers) |->
        [question |-> config.additionalQuestions[Len(answers) + 1 - q],
         answer |-> answers[q]]]

\* the additionalAnswers list Promise.all builds: by question position
AdditionalAnswers(answers) ==
    [q \in 1..Len(answers) |->
        [question |-> config.additionalQuestions[q], answer |-> answers[q]]]

\* the chain's outcome is a success: the request succeeds and, for the
\* extraction, its reply parses
Succeeds(req, out) ==
    /\ out.ok
    /\ req.kind = "extract" => BrandAnalysesOf(req.provider, out.content).ok

\* what a request may settle with.  In the second of two compared runs the
\* providers behave as in the first: a request settles with what it settled
\* with before, except that the requests of the flipped call succeed
Allowed(req, outcomes) ==
    IF run # 2 THEN outcomes
    ELSE IF <<req.pIndex, ProviderIndex(req.provider)>> = flipped
    THEN {out \in outcomes : Succeeds(req, out)}
    ELSE IF \E e \in seen : e.req = req
    THEN {out \in outcomes : [req |-> req, out |-> out] \in seen}
    ELSE outcomes

Record(req, out) ==
    seen' = IF run = 1 THEN seen \cup {[req |-> req, out |-> out]} ELSE seen

\* stage 1 settles: the raw completion request
RawSettles ==
    /\ JsIdle
    /\ \E req \in inflight :
        /\ req.kind = "raw"
        /\ req # hung
        /\ \E out \in Allowed(req, RawOutcomes(req.provider)) :
            /\ Record(req, out)
            /\ IF ~Live(req)
               THEN Ignored /\ inflight' = inflight \ {req} /\ UNCHANGED issued
               ELSE IF ~out.ok
               THEN /\ ProviderSettled(req, chain[ProviderIndex(req.provider)],
                                       AdapterCatch(req.provider, out.message))
                    /\ inflight' = inflight \ {req}
                    /\ UNCHANGED issued
               ELSE /\ ChainContinues(req,
                           [chain[ProviderIndex(req.provider)] EXCEPT
                               !.stage = "extract",
                               !.response = out.content,
                               !.requests = @ + 1])
                    /\ inflight' = (inflight \ {req})
                           \cup {Request(req.pIndex, req.provider, "extract", 0)}
                    /\ issued' = issued + 1
    /\ UNCHANGED <<config, hung, behaviour, pc, rejection, pIndex, dj, resultsByPrompt,
                   run, prevResults, flipped>>

\* stage 2 settles: the structured-extraction request; its reply is parsed
\* and the auxiliary-question requests are issued together
ExtractSettles ==
    /\ JsIdle
    /\ \E req \in inflight :
        /\ req.kind = "extract"
        /\ req # hung
        /\ \E out \in Allowed(req, ExtractOutcomes(req.provider)) :
            LET j == ProviderIndex(req.provider)
                parsed == BrandAnalysesOf(req.provider, out.content)
                got == [chain[j] EXCEPT !.reply = out.content]
            IN
            /\ Record(req, out)
            /\ IF ~Live(req)
               THEN Ignored /\ inflight' = inflight \ {req} /\ UNCHANGED issued
               ELSE IF ~out.ok
               THEN /\ ProviderSettled(req, chain[j], AdapterCatch(req.provider, out.message))
                    /\ inflight' = inflight \ {req}
                    /\ UNCHANGED issued
               ELSE IF ~parsed.ok
               THEN /\ ProviderSettled(req, got, AdapterCatch(req.provider, parsed.message))
                    /\ inflight' = inflight \ {req}
                    /\ UNCHANGED issued
               ELSE IF K = 0
               THEN /\ ProviderSettled(req, [got EXCEPT !.brandAnalyses = parsed.value],
                           Returned(SuccessResponse(req.provider,
                               chain[j].response, parsed.value, <<>>)))
                    /\ inflight' = inflight \ {req}
                    /\ UNCHANGED issued
               ELSE /\ ChainContinues(req,
                           [got EXCEPT !.stage = "aux",
                                       !.brandAnalyses = parsed.value,
                                       !.answers = [q \in 1..K |-> Undefined],
                                       !.requests = @ + Cardinality(
                                           AuxRequests(req.pIndex, req.provider))])
                    /\ inflight' = (inflight \ {req})
                           \cup AuxRequests(req.pIndex, req.provider)
                    /\ issued' = issued
                           + Cardinality(AuxRequests(req.pIndex, req.provider))
    /\ UNCHANGED <<config, hung, behaviour, pc, rejection, pIndex, dj, resultsByPrompt,
                   run, prevResults, flipped>>

\* stage 3: one auxiliary-question request settles; the first failure
\* rejects the adapter's Promise.all, the last answer resolves it
AuxSettles ==
    /\ JsIdle
    /\ \E req \in inflight :
        /\ req.kind = "aux"
        /\ req # hung
        /\ \E out \in Allowed(req, AuxOutcomes(req.provider)) :
            LET j == ProviderIndex(req.provider)
                answers == [chain[j].answers EXCEPT ![req.q] = out.content]
            IN
            /\ Record(req, out)
            /\ IF ~Live(req)
               THEN Ignored
               ELSE IF ~out.ok
               THEN ProviderSettled(req, chain[j], AdapterCatch(req.provider, out.message))
               ELSE IF \A q \in 1..K : answers[q] # Undefined
               THEN ProviderSettled(req, [chain[j] EXCEPT !.answers = answers,
                                                          !.inOrder = InOrder(chain[j], req.q)],
                       Returned(SuccessResponse(req.provider,
                           chain[j].response, chain[j].brandAnalyses,
                           AdditionalAnswers(answers))))
               ELSE ChainContinues(req, [chain[j] EXCEPT !.answers = answers,
                                                         !.inOrder = InOrder(chain[j], req.q)])
        /\ inflight' = inflight \ {req}
    /\ UNCHANGED <<config, hung, behaviour, pc, rejection, pIndex, dj, issued, resultsByPrompt,
                   run, prevResults, flipped>>

Next ==
    \/ StartRun
    \/ Dispatch
    \/ PromiseAllRejects
    \/ AwaitPromiseAll
    \/ RecordResult
    \/ RawSettles
    \/ ExtractSettles
    \/ AuxSettles

Spec == Init /\ [][Next]_vars

\* the event loop runs every continuation that is ready, and every request
\* that can settle does
Fairness ==
    /\ WF_vars(StartRun)
    /\ WF_vars(Dispatch)
    /\ WF_vars(PromiseAllRejects)
    /\ WF_vars(AwaitPromiseAll)
    /\ WF_vars(RecordResult)
    /\ WF_vars(RawSettles)
    /\ WF_vars(ExtractSettles)
    /\ WF_vars(AuxSettles)

\* the runs checked for termination
InitFair ==
    /\ Init
    /\ Len(config.prompts) * Len(config.providers)
            * (2 + Len(config.additionalQuestions)) <= MaxFairRequests

SpecFair == InitFair /\ [][Next]_vars /\ Fairness

\* ------------------------------------------------ building the task list
\* the lengths of the prompts, on both sides of the 40 characters of
\* shortPrompt
PromptLengths == {0, 1, 39, 40, 41, MaxPromptLength}

\* a prompt of the given length, its k-th character being character k
PromptOfLength(len) == [k \in 1..len |-> <<"c", k>>]

\* provider lists that select a provider twice
DuplicateProviderLists == {<<p, p>> : p \in ProviderNames}

\* the configurations whose task list is built: prompts of every length,
\* providers selected once or twice, every credential and model present
TaskConfigs ==
    {[providers |-> provs,
      apiKeys |-> UNION {KeysOf(p) : p \in Range(provs)},
      models |-> Range(provs),
      prompts |-> [i \in 1..Len(lens) |-> PromptOfLength(lens[i])],
      additionalQuestions |-> <<>>] :
        provs \in ProviderLists \cup DuplicateProviderLists,
        lens \in UNION {[1..n -> PromptLengths] : n \in 1..MaxPrompts}}

InitTasks ==
    /\ config \in TaskConfigs
    /\ behaviour = "instructed"
    /\ Fresh
    /\ run = 0
    /\ seen = {}
    /\ prevResults = <<>>
    /\ flipped = <<>>
    /\ hung = NotHung

\* runAnalysis up to its first onProgress call
NextTasks == StartRun

SpecTasks == InitTasks /\ [][NextTasks]_vars

\* ------------------------------------------------- a request that hangs
\* a run one of whose requests never settles, the providers otherwise
\* replying as instructed
InitHung ==
    /\ config \in {c \in ValidConfigs :
            /\ Len(c.prompts) * Len(c.providers) * (2 + Len(c.additionalQuestions))
                    <= MaxHungRequests}
    /\ behaviour = "instructed"
    /\ Fresh
    /\ run = 0
    /\ seen = {}
    /\ prevResults = <<>>
    /\ flipped = <<>>
    /\ hung \in AllRequests(config)

SpecHung == InitHung /\ [][Next]_vars /\ Fairness

\* ------------------------------------------------- two runs, side by side
\* the configurations of the repeated runs, their providers replying as
\* instructed
InitRepeated ==
    /\ config \in {c \in ValidConfigs :
            /\ Len(c.prompts) * Len(c.providers) * (2 + Len(c.additionalQuestions))
                    <= MaxRepeatedRequests}
    /\ behaviour = "instructed"
    /\ Fresh
    /\ run = 1
    /\ seen = {}
    /\ prevResults = <<>>
    /\ flipped = <<>>
    /\ hung = NotHung

\* handleStartAnalysis is called again with the same configuration, once the
\* first run has returned and its requests have all settled; one provider
\* call that failed in the first run is chosen to succeed in the second
RunAgain ==
    /\ run = 1
    /\ pc = "returned"
    /\ inflight = {}
    /\ UNCHANGED <<config, hung, behaviour, seen>>
    /\ \E i \in 1..P, j \in 1..N :
        /\ resultsByPrompt[i].providerResponses[j].error # Undefined
        /\ flipped' = <<i - 1, j>>
    /\ prevResults' = resultsByPrompt
    /\ run' = 2
    /\ pc' = "idle"
    /\ rejection' = Undefined
    /\ pIndex' = 0
    /\ dj' = 1
    /\ tasks' = <<>>
    /\ emitted' = <<>>
    /\ emitCount' = 0
    /\ snapshot' = <<>>
    /\ caught' = 0
    /\ chain' = [j \in 1..N |-> IdleChain]
    /\ promises' = [j \in 1..N |-> NoPromise]
    /\ inflight' = {}
    /\ issued' = 0
    /\ resultsByPrompt' = <<>>
    /\ settleOrder' = <<>>

NextRepeated == Next \/ RunAgain

SpecRepeated == InitRepeated /\ [][NextRepeated]_vars


\* ================================================================ claims
Terminal == {"completed", "error"}

\* the task list exists: runAnalysis got past initializeClients
TasksCreated == pc # "idle" /\ ~initializeClientsThrows(config)

\* the task of prompt i (0-based) and of the j-th selected provider
TaskOf(i, j) == tasks[i * N + j]

\* C1: a run over P prompts and N distinct providers creates exactly P*N
\* tasks, one for each (prompt index, provider) pair, and when runAnalysis
\* returns every task is completed or error.
C1_TaskCountAndTerminal ==
    /\ TasksCreated =>
        /\ Len(tasks) = P * N
        /\ \A i \in 0..(P - 1), j \in 1..N :
            Cardinality({t \in 1..Len(tasks) :
                tasks[t].id = <<"prompt", i, config.providers[j]>>}) = 1
    /\ pc = "returned" => \A t \in 1..Len(tasks) : tasks[t].status \in Terminal

C1_Witness ==
    /\ pc = "returned" /\ P = 2 /\ N = 2
    /\ \E t \in 1..Len(tasks) : tasks[t].status = "completed"
    /\ \E t \in 1..Len(tasks) : tasks[t].status = "error"

\* C2: a run that returns has one AnalysisResult per prompt, in prompt
\* order, and each result has one response per selected provider, entry j
\* being the j-th selected provider's, in whatever order the calls settled.
C2_OrderPreserved ==
    /\ \A i \in 1..Len(resultsByPrompt) :
        /\ resultsByPrompt[i].prompt = config.prompts[i]
        /\ Len(resultsByPrompt[i].providerResponses) = N
        /\ \A j \in 1..N :
            resultsByPrompt[i].providerResponses[j].provider = config.providers[j]
    /\ pc = "returned" => Len(resultsByPrompt) = P

\* a returned run whose last prompt's second provider settled first
C2_Witness ==
    /\ pc = "returned" /\ P = 2 /\ N = 2
    /\ settleOrder = <<2, 1>>

\* C3: no task of prompt i+1 leaves pending and no request of prompt i+1 is
\* outstanding until every provider call of prompt i has settled.
C3_PromptsInOrder ==
    TasksCreated =>
        \A i \in 0..(P - 2) :
            (\/ \E j \in 1..N : TaskOf(i + 1, j).status # "pending"
             \/ \E req \in inflight : req.pIndex = i + 1)
            => \A j \in 1..N : TaskOf(i, j).status \in Terminal

C3_Witness ==
    /\ TasksCreated /\ P = 2 /\ N = 2
    /\ TaskOf(0, 1).status = "error" /\ TaskOf(0, 2).status = "completed"
    /\ TaskOf(1, 1).status = "in_progress"
    /\ \E req \in inflight : req.pIndex = 1

LegalMove(a, b) ==
    \/ a = b
    \/ <<a, b>> \in {<<"pending", "in_progress">>, <<"in_progress", "completed">>,
                    <<"in_progress", "error">>}

\* C10: from one emitted snapshot to the next every task keeps its status or
\* moves pending -> in_progress or in_progress -> completed | error, and
\* some task moves: no task is set in_progress twice, none skips
\* in_progress, none leaves completed or error.
C10_TaskStateMachine ==
    [][(emitCount >= 1 /\ emitCount' # emitCount) =>
            /\ Len(emitted') = Len(emitted)
            /\ Len(tasks') = Len(tasks)
            /\ \A t \in 1..Len(emitted) :
                /\ LegalMove(emitted[t].status, emitted'[t].status)
                /\ LegalMove(tasks[t].status, tasks'[t].status)
            /\ \E t \in 1..Len(emitted) : emitted'[t].status # emitted[t].status]_vars

C10_Witness ==
    /\ TasksCreated /\ P = 2 /\ N = 2
    /\ emitted = tasks
    /\ tasks[1].status = "completed" /\ tasks[2].status = "error"
    /\ tasks[3].status = "in_progress" /\ tasks[4].status = "pending"


\* the ProviderResponse recorded for prompt i (0-based) and the j-th provider
ResponseOf(results, i, j) == results[i + 1].providerResponses[j]

\* C4: two runs over the same configuration in which every provider request
\* settles the same way, except that one call (prompt i, provider A) fails in
\* the first and succeeds in the second: both runs return, and every other
\* ProviderResponse is the same in both.
C4_FailureIsolation ==
    run = 2 =>
        /\ pc # "rejected"
        /\ pc = "returned" =>
            /\ Len(resultsByPrompt) = Len(prevResults)
            /\ ResponseOf(prevResults, flipped[1], flipped[2]).error # Undefined
            /\ ResponseOf(resultsByPrompt, flipped[1], flipped[2]).error = Undefined
            /\ \A i \in 0..(P - 1), j \in 1..N :
                <<i, j>> # flipped =>
                    ResponseOf(resultsByPrompt, i, j) = ResponseOf(prevResults, i, j)

\* the first provider's call for the first prompt is the flipped one; its
\* sibling succeeded and a call of the next prompt failed, in both runs
C4_Witness ==
    /\ run = 2 /\ pc = "returned" /\ P = 2 /\ N = 2
    /\ flipped = <<0, 1>>
    /\ ResponseOf(resultsByPrompt, 0, 2).error = Undefined
    /\ ResponseOf(resultsByPrompt, 1, 1).error # Undefined

\* C5: when a selected provider lacks its credential or its model
\* identifier, runAnalysis does not return, and at the step at which it
\* rejects no provider request has been issued yet.
C5_RejectsBeforeAnyRequest ==
    /\ [](~FullyConfigured(config) => pc # "returned")
    /\ [][(~FullyConfigured(config) /\ pc # "rejected" /\ pc' = "rejected")
            => issued' = 0]_vars

\* C6: a provider dispatched without its client bundle or model identifier
\* gets an error task and an error-shaped response; runAnalysis does not
\* reject.
C6_DispatchErrorSurfaced ==
    TasksCreated =>
        \A j \in 1..N :
            (/\ pc \in {"dispatch", "await", "rejected"}
             /\ j < dj
             /\ ~ClientReady(config.providers[j]))
            => /\ pc # "rejected"
               /\ TaskOf(pIndex, j).status = "error"
               /\ TaskOf(pIndex, j).error = NotInitializedMessage(config.providers[j])
               /\ promises[j].state = "fulfilled"
               /\ promises[j].value.error = NotInitializedMessage(config.providers[j])
               /\ promises[j].value.response = ""
               /\ promises[j].value.brandAnalyses = JsList(<<>>)
               /\ promises[j].value.additionalAnswers = <<>>

\* C7: with every selected provider's credentials and model identifier
\* present, runAnalysis never rejects; when it returns, the list is complete
\* and every failed call is an error field of its ProviderResponse.
C7_NeverRejects ==
    FullyConfigured(config) =>
        /\ pc # "rejected"
        /\ pc = "returned" =>
            /\ Len(resultsByPrompt) = P
            /\ \A i \in 0..(P - 1), j \in 1..N :
                LET r == ResponseOf(resultsByPrompt, i, j) IN
                /\ r.provider = config.providers[j]
                /\ TaskOf(i, j).status = "error" => r.error = TaskOf(i, j).error
                /\ r.error = Undefined => TaskOf(i, j).status = "completed"

\* every call of a two-prompt, two-provider run failed, and the run returned
C7_Witness ==
    /\ FullyConfigured(config) /\ pc = "returned" /\ P = 2 /\ N = 2
    /\ \A i \in 0..1, j \in 1..2 : ResponseOf(resultsByPrompt, i, j).error # Undefined
    /\ \E i \in 0..1, j \in 1..2 : TaskOf(i, j).status = "error"

\* the three data fields of a response are empty
EmptyData(r) ==
    r.response = "" /\ r.brandAnalyses = JsList(<<>>) /\ r.additionalAnswers = <<>>

\* the responses the orchestrator has received or recorded
Fulfilled == {j \in 1..N : promises[j].state = "fulfilled"}

Recorded ==
    {resultsByPrompt[i].providerResponses[j] : i \in 1..Len(resultsByPrompt), j \in 1..N}

\* C8 as stated: error is set if and only if response is "", brandAnalyses is
\* empty and additionalAnswers is empty.
C8_ErrorIffEmpty ==
    /\ \A j \in Fulfilled :
        (promises[j].value.error # Undefined) <=> EmptyData(promises[j].value)
    /\ \A r \in Recorded : (r.error # Undefined) <=> EmptyData(r)

\* C8 amended: a response with error set has response "", no brandAnalyses
\* and no additionalAnswers; a response without error has all three empty
\* only when the raw completion was the empty string, the extracted brand
\* list was empty and no auxiliary question is configured.
C8_ErrorImpliesEmpty ==
    /\ \A j \in Fulfilled :
        LET r == promises[j].value IN
        /\ r.error # Undefined => EmptyData(r)
        /\ (r.error = Undefined /\ EmptyData(r)) =>
            /\ chain[j].stage = "returned"
            /\ chain[j].response = ""
            /\ chain[j].reply # NoReply
            /\ chain[j].brandAnalyses = JsList(<<>>)
            /\ K = 0
    /\ \A r \in Recorded : r.error # Undefined => EmptyData(r)

\* an error-shaped response of a chain whose raw completion had succeeded
C8_Witness ==
    \E j \in Fulfilled :
        /\ promises[j].value.error = SyntaxErrorMessage
        /\ chain[j].response = "text"
        /\ EmptyData(promises[j].value)

\* C9: when the raw completion succeeded and the extraction reply carries no
\* valid JSON (malformed JSON, or free text without a fenced json block), the
\* adapter's response is error-shaped and does not keep the raw text; for
\* each of the four adapters.
C9_NoJsonIsError ==
    \A j \in Fulfilled :
        (chain[j].stage = "returned" /\ chain[j].reply.json = "malformed")
        => /\ promises[j].value.error # Undefined
           /\ EmptyData(promises[j].value)

\* C11: after a status update, the array handed to onProgress before it
\* still reads as it did when it was handed over: the status and the error
\* of each of its tasks are what the observer was given.
C11_SnapshotIsCopy ==
    [][(emitCount >= 1 /\ emitCount' > emitCount) =>
            \A t \in 1..Len(snapshot) :
                /\ tasks'[snapshot[t]].status = emitted[t].status
                /\ tasks'[snapshot[t]].error = emitted[t].error]_vars

\* the number of status changes a task has gone through
ChangesOf(status) ==
    CASE status = "pending" -> 0
      [] status = "in_progress" -> 1
      [] OTHER -> 2

RECURSIVE StatusChanges(_)
StatusChanges(ts) ==
    IF ts = <<>> THEN 0 ELSE ChangesOf(Head(ts).status) + StatusChanges(Tail(ts))

\* C12: onProgress is called within every status change (once for the
\* initial list and once for each change), and what it is handed is the
\* whole task list as it is then: P*N tasks, prompt-major and provider-minor.
C12_CompleteListOnEveryChange ==
    TasksCreated =>
        /\ emitted = tasks
        /\ Len(snapshot) = P * N
        /\ Len(emitted) = P * N
        /\ \A i \in 0..(P - 1), j \in 1..N :
            emitted[i * N + j].id = <<"prompt", i, config.providers[j]>>
        /\ emitCount = 1 + StatusChanges(tasks)

C12_Witness ==
    /\ pc = "returned" /\ P = 2 /\ N = 2
    /\ emitCount = 9
    /\ emitted[4].status = "error"

\* C13: in a run that has returned, task (i, p) is error exactly when its
\* ProviderResponse carries an error, whatever the message, and then has the
\* response's error; otherwise it is completed and has no error.
C13_TaskMatchesResponse ==
    pc = "returned" =>
        \A i \in 0..(P - 1), j \in 1..N :
            LET r == ResponseOf(resultsByPrompt, i, j)
                t == TaskOf(i, j)
            IN  IF r.error # Undefined
                THEN t.status = "error" /\ t.error = r.error
                ELSE t.status = "completed" /\ t.error = Undefined

\* the adapter chain of the j-th provider ended in its catch block: a request
\* failed, the extraction reply did not parse, or an answer is missing
ChainFailed(j) ==
    /\ chain[j].stage = "returned"
    /\ \/ chain[j].reply = NoReply
       \/ ~BrandAnalysesOf(config.providers[j], chain[j].reply).ok
       \/ \E q \in 1..Len(chain[j].answers) : chain[j].answers[q] = Undefined

\* C14: a chain one of whose stages failed returns an error-shaped
\* ProviderResponse (error set, response "", no brandAnalyses, no
\* additionalAnswers); the catch block of the map callback never runs.
C14_AdapterNeverThrows ==
    /\ caught = 0
    /\ \A j \in 1..N :
        ChainFailed(j) =>
            /\ promises[j].state = "fulfilled"
            /\ promises[j].value.provider = config.providers[j]
            /\ promises[j].value.error # Undefined
            /\ EmptyData(promises[j].value)

\* a chain whose extraction reply arrived and did not parse
C14_Witness ==
    \E j \in 1..N :
        /\ ChainFailed(j)
        /\ chain[j].reply # NoReply
        /\ chain[j].response = "text"
        /\ ~BrandAnalysesOf(config.providers[j], chain[j].reply).ok
        /\ promises[j].value.error = SyntaxErrorMessage

\* C15: the number of outstanding provider requests never exceeds the number
\* of selected providers.
C15_AtMostOnePerProvider == Cardinality(inflight) <= N

\* C16: a successful ProviderResponse has as many additionalAnswers as there
\* are configured questions, entry q carrying question q, in whatever order
\* the answers arrived.
C16_AnswersInQuestionOrder ==
    \A r \in Recorded \cup {promises[j].value : j \in Fulfilled} :
        r.error = Undefined =>
            /\ Len(r.additionalAnswers) = K
            /\ \A q \in 1..K :
                r.additionalAnswers[q].question = config.additionalQuestions[q]

\* a successful response whose second answer arrived before its first
C16_Witness ==
    \E j \in Fulfilled :
        /\ promises[j].value.error = Undefined
        /\ K = 2
        /\ ~chain[j].inOrder
        /\ Len(promises[j].value.additionalAnswers) = 2

\* C17: all outstanding requests, those nobody awaits any more included,
\* belong to one prompt index.
C17_OnePromptOutstanding ==
    \A r1 \in inflight, r2 \in inflight : r1.pIndex = r2.pIndex

\* the chain of the j-th provider ended because a question's request failed
AuxFailed(j) ==
    /\ chain[j].stage = "returned"
    /\ chain[j].endedAt = "aux"
    /\ \E q \in 1..K : chain[j].answers[q] = Undefined

\* C18: when the request of one auxiliary question fails, the response is
\* error-shaped: error set, response "", no brandAnalyses and no
\* additionalAnswers, although the chain holds the raw text, the parsed
\* brand analyses and the answers that had arrived.
C18_OneQuestionFailsTheChain ==
    \A j \in 1..N :
        AuxFailed(j) =>
            /\ promises[j].state = "fulfilled"
            /\ promises[j].value.error # Undefined
            /\ EmptyData(promises[j].value)

\* one of two questions failed after the other had been answered
C18_Witness ==
    \E j \in 1..N :
        /\ AuxFailed(j)
        /\ K = 2
        /\ chain[j].response = "text"
        /\ chain[j].brandAnalyses = JsList(SomeBrands)
        /\ \E q \in 1..K : chain[j].answers[q] = "answer"
        /\ EmptyData(promises[j].value)

C20_FirstEmissionAllPending ==
    /\ emitCount = 0 => (tasks = <<>> /\ issued = 0)
    /\ emitCount = 1 =>
        /\ Len(emitted) = P * N
        /\ \A t \in 1..Len(emitted) : emitted[t].status = "pending"
        /\ \A t \in 1..Len(tasks) : tasks[t].status = "pending"
        /\ issued = 0
        /\ inflight = {}

C20_Witness ==
    /\ emitCount = 1 /\ P = 2 /\ N = 2
    /\ pc = "dispatch"
    /\ Len(emitted) = 4

\* C21: with every credential and model present and every request settling
\* in the end, runAnalysis returns in the end; once it has returned, all
\* P*N tasks are completed or error and the result list has P entries.
C21_EventuallyReturns ==
    /\ FullyConfigured(config) => <>(pc = "returned")
    /\ [](FullyConfigured(config) /\ pc = "returned" =>
            /\ Len(tasks) = P * N
            /\ \A t \in 1..Len(tasks) : tasks[t].status \in Terminal
            /\ Len(resultsByPrompt) = P)

\* a returned run of two prompts, two providers and a question, all its
\* requests settled
C21_Witness ==
    /\ FullyConfigured(config) /\ pc = "returned"
    /\ P = 2 /\ N = 2 /\ K = 1
    /\ inflight = {}
    /\ Len(resultsByPrompt) = 2
    /\ tasks[4].status = "completed"

\* the hung request has been issued: it is outstanding from then on
HungIssued == hung \in inflight

\* the hung request's provider keeps its task in_progress, runAnalysis has
\* not returned and no task of a later prompt has left pending
HangsRun ==
    /\ TaskOf(hung.pIndex, ProviderIndex(hung.provider)).status = "in_progress"
    /\ pc # "returned"
    /\ \A i \in (hung.pIndex + 1)..(P - 1), j \in 1..N : TaskOf(i, j).status = "pending"

\* the j-th provider is a sibling of the hung request's provider whose
\* adapter runs for the same prompt
SiblingOfHung(j) ==
    /\ j <= N
    /\ HungIssued
    /\ config.providers[j] # hung.provider
    /\ ClientReady(config.providers[j])

SiblingTerminal(j) ==
    /\ j <= N
    /\ Len(tasks) = P * N
    /\ TaskOf(hung.pIndex, j).status \in Terminal

EmittedOf(i, j) == emitted[i * N + j]

\* C23: in every emitted snapshot some prompt index c has every task of an
\* earlier prompt completed or error and every task of a later prompt
\* pending; a prompt whose result is recorded has all its N tasks completed
\* or error.
C23_CurrentPrompt ==
    TasksCreated =>
        /\ \E c \in 0..P :
            /\ \A i \in 0..(c - 1), j \in 1..N : EmittedOf(i, j).status \in Terminal
            /\ \A i \in (c + 1)..(P - 1), j \in 1..N : EmittedOf(i, j).status = "pending"
        /\ \A i \in 0..(Len(resultsByPrompt) - 1), j \in 1..N :
            /\ EmittedOf(i, j).status \in Terminal
            /\ TaskOf(i, j).status \in Terminal

\* the first prompt is half done, its result not recorded, the second untouched
C23_Witness ==
    /\ TasksCreated /\ P = 2 /\ N = 2
    /\ EmittedOf(0, 1).status = "completed"
    /\ EmittedOf(0, 2).status = "in_progress"
    /\ EmittedOf(1, 1).status = "pending" /\ EmittedOf(1, 2).status = "pending"
    /\ resultsByPrompt = <<>>

\* C24: no emitted snapshot shows a task of a prompt completed or error
\* while another task of that prompt is pending; once a request of the
\* current prompt has settled, the map callback has run for all N providers:
\* none of the prompt's tasks is pending and every adapter has been invoked.
C24_IssuedTogether ==
    TasksCreated =>
        /\ \A i \in 0..(P - 1), j1 \in 1..N, j2 \in 1..N :
            ~(EmittedOf(i, j1).status \in Terminal /\ EmittedOf(i, j2).status = "pending")
        /\ (\E j \in 1..N : chain[j].stage \in {"extract", "aux", "returned"}) =>
            /\ dj > N
            /\ \A j \in 1..N :
                /\ TaskOf(pIndex, j).status # "pending"
                /\ ClientReady(config.providers[j]) => chain[j].stage # "idle"

\* the first provider's chain has ended while the second still awaits its
\* raw completion
C24_Witness ==
    /\ TasksCreated /\ N = 2 /\ pc = "await"
    /\ chain[1].stage = "returned" /\ chain[2].stage = "raw"
    /\ EmittedOf(pIndex, 1).status = "error"
    /\ EmittedOf(pIndex, 2).status = "in_progress"

\* C25: an emission after the first differs from the one before it in
\* exactly one task, whose status changes (and possibly its error) while its
\* id and description stay; the number and the order of the tasks and every
\* other task are the same.
C25_OneTaskPerEmission ==
    [][(emitCount >= 1 /\ emitCount' > emitCount) =>
            /\ Len(emitted') = Len(emitted)
            /\ \E t \in 1..Len(emitted) :
                /\ emitted'[t].status # emitted[t].status
                /\ emitted'[t].id = emitted[t].id
                /\ emitted'[t].description = emitted[t].description
                /\ \A u \in 1..Len(emitted) : u # t => emitted'[u] = emitted[u]]_vars

\* the fourth emission: the first task has gone to error with its message
C25_Witness ==
    /\ emitCount = 4 /\ N = 2
    /\ emitted[1].status = "error" /\ emitted[1].error = "API Error"
    /\ emitted[2].status = "in_progress" /\ emitted[2].error = Undefined

\* C26: from one emission to the next the progress count stays or grows by
\* one; a run that has returned has emitted 1 + 2*P*N snapshots and its last
\* snapshot has progress count P*N.
C26_ProgressCount ==
    /\ [][(emitCount >= 1 /\ emitCount' > emitCount) =>
            \/ completedCount(emitted') = completedCount(emitted)
            \/ completedCount(emitted') = completedCount(emitted) + 1]_vars
    /\ [](pc = "returned" =>
            /\ emitCount = 1 + 2 * P * N
            /\ completedCount(emitted) = P * N)

\* a returned run half of whose tasks failed
C26_Witness ==
    /\ pc = "returned" /\ P = 2 /\ N = 2
    /\ completedCount(emitted) = 4
    /\ Cardinality({t \in 1..4 : emitted[t].status = "error"}) = 2

\* C27: once runAnalysis has returned or rejected, onProgress is not called
\* and no task changes.
C27_QuietAfterSettled ==
    [][(pc = "returned" \/ pc = "rejected") =>
            /\ emitCount' = emitCount
            /\ tasks' = tasks]_vars

\* C28: when runAnalysis has returned, no provider request is outstanding.
C28_NothingOutstandingAtReturn == pc = "returned" => inflight = {}

\* C29: the brandAnalyses of every ProviderResponse is a list.
C29_BrandAnalysesIsList ==
    \A r \in Recorded \cup {promises[j].value : j \in Fulfilled} :
        r.brandAnalyses.t = "list"

\* the selected providers are pairwise distinct
DistinctProviders == \A j1 \in 1..N, j2 \in 1..N : j1 # j2 => config.providers[j1] # config.providers[j2]

\* C30: the task of prompt i and of the j-th provider is the (i*N + j)-th
\* task and has id prompt-i-provider; its description embeds the prompt
\* itself when the prompt has at most 40 characters, and otherwise the
\* prompt's first 40 characters followed by three dots; with distinct
\* providers no two tasks have the same id.
C30_TaskDescriptions ==
    TasksCreated =>
        /\ Len(tasks) = P * N
        /\ \A i \in 0..(P - 1), j \in 1..N :
            LET t == tasks[i * N + j]
                prompt == config.prompts[i + 1]
                short == t.description[1]
            IN  /\ t.id = <<"prompt", i, config.providers[j]>>
                /\ t.description[2] = providerBaseNames[config.providers[j]]
                /\ Len(prompt) <= 40 => short = prompt
                /\ Len(prompt) > 40 =>
                    /\ Len(short) = 43
                    /\ \A k \in 1..40 : short[k] = prompt[k]
                    /\ \A k \in 41..43 : short[k] = "."
        /\ DistinctProviders =>
            \A t1 \in 1..Len(tasks), t2 \in 1..Len(tasks) :
                t1 # t2 => tasks[t1].id # tasks[t2].id

\* a prompt of 41 characters and a prompt of 40, for two distinct providers
C30_Witness ==
    /\ TasksCreated /\ P = 2 /\ N = 2 /\ DistinctProviders
    /\ Len(config.prompts[1]) = 41 /\ Len(config.prompts[2]) = 40
    /\ Len(tasks[1].description[1]) = 43
    /\ Len(tasks[3].description[1]) = 40

====
